---------------------------- MODULE Spec2Model ----------------------------
(***************************************************************************)
(* The message-text normalizer (src/src/data_preprocessor.py) and the      *)
(* rule-based request classifier (src/src/thad-request-extractor) of the   *)
(* support-billing-tracker.                                                *)
(*                                                                         *)
(* Texts are TLA+ strings; characters are strings of length one.  Python's *)
(* 0-based s[i] is Char(s, i + 1); the slice s[a:] is Drop(s, a).          *)
(***************************************************************************)
EXTENDS Naturals, Sequences, FiniteSets, TLC

VARIABLES
    text,       \* the message text being put together (one CSV field)
    np,         \* how many fragments text is made of
    pc,         \* where the run is
    cleaned,    \* clean_message_text(text)
    recleaned,  \* clean_message_text(cleaned)
    exc,        \* the exception the last call raised, or "none"
    infile,     \* the rows of the raw export process_csv reads
    csv,        \* the rows of the CSV file the extractor is pointed at
    df,         \* RequestExtractor.df after load_data
    requests,   \* RequestExtractor.requests
    outcome,    \* per processed row, the return path extract_request_type took
    pos,        \* how many rows of df process_messages has iterated over
    runs,       \* how many times process_messages has run to its end
    exported,   \* the rows export_results wrote to requests_by_month.csv
    cleanlog,   \* how the last process_csv call ended
    exit_code   \* the exit status of process.py, or "none" while it runs

vars == <<text, np, pc, cleaned, recleaned, exc, infile, csv, df, requests, outcome, pos, runs,
          exported, cleanlog, exit_code>>

normVars == <<cleaned, recleaned>>
pipeVars == <<exported, cleanlog, exit_code>>
extrVars == <<infile, csv, df, requests, outcome, pos, runs, pipeVars>>

(***************************************************************************)
(* Bounds.                                                                 *)
(***************************************************************************)
MaxPieces == 3

(***************************************************************************)
(* Python str primitives.                                                  *)
(***************************************************************************)
Char(s, i) == SubSeq(s, i, i)

Drop(s, n) == SubSeq(s, n + 1, Len(s))

StartsWith(s, p) == Len(p) <= Len(s) /\ SubSeq(s, 1, Len(p)) = p

EndsWith(s, p) == Len(p) <= Len(s) /\ SubSeq(s, Len(s) - Len(p) + 1, Len(s)) = p

OccursAt(s, i, w) == i + Len(w) - 1 <= Len(s) /\ SubSeq(s, i, i + Len(w) - 1) = w

\* `w in s`
Contains(s, w) == \E i \in 1..(Len(s) + 1 - Len(w)) : SubSeq(s, i, i + Len(w) - 1) = w

\* `c in chars` for a one-character c
InChars(c, chars) == \E i \in 1..Len(chars) : Char(chars, i) = c

UpperAlphabet == "ABCDEFGHIJKLMNOPQRSTUVWXYZ"
LowerAlphabet == "abcdefghijklmnopqrstuvwxyz"
Digits == "0123456789"

\* str.isupper() of one character
IsUpper(c) == InChars(c, UpperAlphabet)

\* str.isalnum() of one character (U+00EF is a letter, U+00BC is numeric)
IsAlnum(c) ==
    \/ InChars(c, UpperAlphabet)
    \/ InChars(c, LowerAlphabet)
    \/ InChars(c, Digits)
    \/ c \in {"ï", "¼"}

\* The characters str.strip(), str.split() and the regex class \s treat as
\* white space, among those a TLA+ string can hold.
Whitespace == {" ", "\t", "\n", "\r", "\f"}

\* The lower case letter of every upper case letter
LowerOf == [c \in {Char(UpperAlphabet, i) : i \in 1..26} |->
              Char(LowerAlphabet, CHOOSE i \in 1..26 : Char(UpperAlphabet, i) = c)]

LowerChar(c) == IF c \in DOMAIN LowerOf THEN LowerOf[c] ELSE c

UpperChar(c) ==
    IF InChars(c, LowerAlphabet)
    THEN Char(UpperAlphabet, CHOOSE i \in 1..26 : Char(LowerAlphabet, i) = c)
    ELSE c

RECURSIVE Lower(_)
\* str.lower(), character by character (the text is split in halves)
Lower(s) ==
    IF s = "" THEN ""
    ELSE IF Len(s) = 1 THEN LowerChar(s)
    ELSE LET h == Len(s) \div 2 IN Lower(SubSeq(s, 1, h)) \o Lower(Drop(s, h))

RECURSIVE LStrip(_)
LStrip(s) == IF s # "" /\ Char(s, 1) \in Whitespace THEN LStrip(Drop(s, 1)) ELSE s

RECURSIVE RStrip(_)
RStrip(s) ==
    IF s # "" /\ Char(s, Len(s)) \in Whitespace
    THEN RStrip(SubSeq(s, 1, Len(s) - 1))
    ELSE s

\* str.strip()
Strip(s) == RStrip(LStrip(s))

\* The first position from p on whose character is in class, or Len(s) + 1.
FirstIn(s, p, class) ==
    IF \E i \in p..Len(s) : Char(s, i) \in class
    THEN CHOOSE i \in p..Len(s) : Char(s, i) \in class /\ \A j \in p..(i - 1) : Char(s, j) \notin class
    ELSE Len(s) + 1

\* The first position from p on whose character is not in class, or Len(s) + 1.
FirstNotIn(s, p, class) ==
    IF \E i \in p..Len(s) : Char(s, i) \notin class
    THEN CHOOSE i \in p..Len(s) : Char(s, i) \notin class /\ \A j \in p..(i - 1) : Char(s, j) \in class
    ELSE Len(s) + 1

RECURSIVE ReplaceAll(_, _, _)
\* str.replace(old, new) for a non-empty old: left to right, non-overlapping
ReplaceAll(s, old, new) ==
    IF ~Contains(s, old) THEN s
    ELSE LET i == CHOOSE i \in 1..Len(s) : OccursAt(s, i, old) /\ \A j \in 1..(i - 1) : ~OccursAt(s, j, old)
         IN SubSeq(s, 1, i - 1) \o new \o ReplaceAll(Drop(s, i + Len(old) - 1), old, new)

RECURSIVE RemoveChars(_, _)
\* re.sub(r'[class]', '', s)
RemoveChars(s, class) ==
    LET i == FirstIn(s, 1, class) IN
    IF i > Len(s) THEN s
    ELSE SubSeq(s, 1, i - 1) \o RemoveChars(Drop(s, i), class)

RECURSIVE CollapseWs(_)
\* re.sub(r'\s+', ' ', s): every run of white space becomes one space
CollapseWs(s) ==
    LET i == FirstIn(s, 1, Whitespace) IN
    IF i > Len(s) THEN s
    ELSE SubSeq(s, 1, i - 1) \o " " \o CollapseWs(Drop(s, FirstNotIn(s, i, Whitespace) - 1))

RECURSIVE CountTokens(_)
\* len(s.split())
CountTokens(s) ==
    LET t == LStrip(s) IN
    IF t = "" THEN 0
    ELSE LET ends == {i \in 1..Len(t) : Char(t, i) \in Whitespace} IN
         IF ends = {} THEN 1
         ELSE 1 + CountTokens(Drop(t, CHOOSE i \in ends : \A j \in ends : i <= j))

\* The value s[i] of Python, or IndexError when i is out of range.
IndexError == "<IndexError>"
PyIndex(s, i) == IF i < Len(s) THEN Char(s, i + 1) ELSE IndexError

(***************************************************************************)
(* The regular expressions of the sources, as sequences of tokens.         *)
(***************************************************************************)
Lit(alts) == [k |-> "lit", alts |-> alts]      \* one of the literals
DotStar   == [k |-> "dot", alts |-> {}]        \* .* or .*? (no line break)
Spaces    == [k |-> "ws",  alts |-> {}]        \* \s+
NotPlus   == [k |-> "np",  alts |-> {}]        \* [^+]+
Bos       == [k |-> "bos", alts |-> {}]        \* ^
Eos       == [k |-> "eos", alts |-> {}]        \* $

RECURSIVE MatchEnds(_, _, _)
\* The positions at which a match of toks that starts at position p can end
\* (the position after its last character).
MatchEnds(s, p, toks) ==
    IF toks = <<>> THEN {p}
    ELSE
      LET t == Head(toks)
          next ==
            CASE t.k = "lit" -> {p + Len(w) : w \in {v \in t.alts : OccursAt(s, p, v)}}
              [] t.k = "dot" -> p..FirstIn(s, p, {"\n"})
              [] t.k = "ws"  -> (p + 1)..FirstNotIn(s, p, Whitespace)
              [] t.k = "np"  -> (p + 1)..FirstIn(s, p, {"+"})
              [] t.k = "bos" -> IF p = 1 THEN {p} ELSE {}
              [] t.k = "eos" -> IF p = Len(s) + 1 \/ (p = Len(s) /\ Char(s, p) = "\n")
                                THEN {p} ELSE {}
      IN UNION {MatchEnds(s, q, Tail(toks)) : q \in next}

RECURSIVE MatchesAt(_, _, _)
\* Whether some match of toks starts at position p
MatchesAt(s, p, toks) ==
    IF toks = <<>> THEN TRUE
    ELSE
      LET t == Head(toks) IN
      CASE t.k = "lit" -> \E w \in t.alts : OccursAt(s, p, w) /\ MatchesAt(s, p + Len(w), Tail(toks))
        [] t.k = "dot" -> \E q \in p..FirstIn(s, p, {"\n"}) : MatchesAt(s, q, Tail(toks))
        [] t.k = "ws"  -> \E q \in (p + 1)..FirstNotIn(s, p, Whitespace) : MatchesAt(s, q, Tail(toks))
        [] t.k = "np"  -> \E q \in (p + 1)..FirstIn(s, p, {"+"}) : MatchesAt(s, q, Tail(toks))
        [] t.k = "bos" -> p = 1 /\ MatchesAt(s, p, Tail(toks))
        [] t.k = "eos" -> /\ p = Len(s) + 1 \/ (p = Len(s) /\ Char(s, p) = "\n")
                          /\ MatchesAt(s, p, Tail(toks))

\* Mutant: a match is looked for at the first character only.
re_search_at_start(pattern, lowered) ==
    \E a \in 1..Len(pattern) : MatchesAt(lowered, 1, pattern[a])

\* pattern.search(s) for a pattern compiled with re.IGNORECASE, given as its
\* alternatives with lower case literals: some alternative matches somewhere
\* in the lowered text.
re_search(pattern, lowered) ==
    \E a \in 1..Len(pattern) : \E p \in 1..(Len(lowered) + 1) : MatchesAt(lowered, p, pattern[a])

\* re.match(toks, s): a match that starts at the first character
re_match(toks, s) == MatchesAt(s, 1, toks)

(***************************************************************************)
(* The normalizer: clean_message_text, stage by stage.                     *)
(***************************************************************************)
Max(S) == CHOOSE x \in S : \A y \in S : y <= x
Min(S) == CHOOSE x \in S : \A y \in S : x <= y

streamtyped_re == <<Bos, Lit({"streamtyped"}), Spaces, Lit({"@"}), Spaces, NotPlus, Lit({"+"})>>

\* 0. re.sub(r'^streamtyped\s+@\s+[^+]+\+', '', text): [^+]+ stops at the
\* first '+', so a match has one possible end.
strip_streamtyped(t) ==
    LET ends == MatchEnds(t, 1, streamtyped_re) IN
    IF ends = {} THEN t ELSE Drop(t, Max(ends) - 1)

\* The members of [\x00-\x08\x0B\x0C\x0E-\x1F] a TLA+ string can hold.
ControlChars == {"\f"}

\* 1. the object replacement sequence, then the control characters
remove_control(t) == RemoveChars(ReplaceAll(t, "ï¿¼", ""), ControlChars)

trailing_re == <<Lit({"iI"}), DotStar, Lit({"NSDictionary", ""}), Eos>>

\* 2. re.sub(r'iI.*(NSDictionary)?$', '', text): the leftmost iI from which
\* the rest of the text is one line; a final line break is left in place.
strip_trailing_artifact(t) ==
    LET starts == {p \in 1..Len(t) : MatchesAt(t, p, trailing_re)} IN
    IF starts = {} THEN t
    ELSE LET p == Min(starts)
             e == Max(MatchEnds(t, p, trailing_re))
         IN SubSeq(t, 1, p - 1) \o Drop(t, e - 1)

\* Mutant: the first character dropped without looking at it.
strip_leading_plus_unguarded(t) == Drop(t, 1)

\* 3. a leading '+'
strip_leading_plus(t) == IF StartsWith(t, "+") THEN Drop(t, 1) ELSE t

\* 4. the malformed prefixes, in the dict's insertion order
patterns == <<
    <<"TGood", "Good">>, <<"GLmk", "Lmk">>, <<"GI have", "I have">>, <<"JDon't", "Don't">>,
    <<"kAwesome", "Awesome">>, <<"nThey're", "They're">>, <<".Good", "Good">>, <<"/Laughed", "Laughed">>,
    <<"lIt is", "It is">>, <<"lYeah", "Yeah">>, <<"cI have", "I have">>, <<"oLiked", "Liked">>,
    <<"CLiked", "Liked">>, <<"eSHIP", "SHIP">>, <<"9Ooh", "Ooh">>, <<"4Knew", "Knew">>,
    <<"qMaj", "Maj">>, <<"KVery", "Very">>, <<"*Nice", "Nice">>, <<"7Yes", "Yes">>,
    <<"7All", "All">>, <<"LLove", "Love">>, <<"JDon", "Don">>, <<"iUp", "Up">>,
    <<"JBlueHost", "BlueHost">>, <<"/They", "They">>, <<"2They", "They">>, <<"lI", "I">>,
    <<"oK", "OK">>, <<"jI", "I">>, <<"OCan", "Can">>, <<"kGood", "Good">>,
    <<"SWe", "We">>, <<"rOperation", "Operation">>, <<"0Phantom", "Phantom">>, <<"QLiked", "Liked">>,
    <<"0Emphasized", "Emphasized">>, <<"%Emphasized", "Emphasized">>, <<"'Got", "Got">>, <<".Dropping", "Dropping">>,
    <<"AGood", "Good">>, <<"JPlease", "Please">>, <<"AAll", "All">>, <<"JI", "I">>,
    <<"AGot", "Got">>, <<"JThey", "They">>, <<"AThank", "Thank">>, <<"JThanks", "Thanks">>,
    <<"AYeah", "Yeah">>, <<"JYes", "Yes">>, <<"ANice", "Nice">>, <<"JGood", "Good">>,
    <<"ASounds", "Sounds">>, <<"JLet", "Let">>, <<"AWe", "We">>, <<"JWe", "We">>
>>
\* Mutant: the text after the prefix is lost.
fix_prefix_drops_rest(t) ==
    LET hits == {i \in 1..Len(patterns) : StartsWith(t, patterns[i][1])} IN
    IF hits = {} THEN t
    ELSE LET i == Min(hits) IN patterns[i][2]

\* the first entry whose bad_start the text starts with is applied, then break
fix_prefix(t) ==
    LET hits == {i \in 1..Len(patterns) : StartsWith(t, patterns[i][1])} IN
    IF hits = {} THEN t
    ELSE LET i == Min(hits) IN patterns[i][2] \o Drop(t, Len(patterns[i][1]))

\* The symbols of Pattern 1, less the backquote, which no text here holds.
common_symbols == ".,[]{}()<>!@#$%^&*-+=|\\:;\"'~_?/><"

common_starters == <<
    "I'", "I ", "The", "They", "This", "That", "We", "You", "He", "She", "It",
    "Can", "Will", "Could", "Would", "Should", "Please", "Let", "All", "Good",
    "Yes", "No", "OK", "Alright", "Sure", "Thanks", "Thank"
>>

StartsWithStarter(t) == \E i \in 1..Len(common_starters) : StartsWith(t, common_starters[i])

\* Mutant: texts of two characters are left alone.
SingleCharGuardOffByOne(t) == Len(t) > 2

\* Mutant: the length guard left out.
SingleCharGuardMissing(t) == TRUE

\* `if len(text) > 1:`
SingleCharGuard(t) == Len(t) > 1

\* Mutant: pattern 2 is never tried.
Pattern2GuardNever(rest) == FALSE

\* `len(rest_of_text) > 3`
Pattern2Guard(rest) == Len(rest) > 3

\* `len(rest_of_text) > 2`
Pattern3Guard(rest) == Len(rest) > 2

\* 5. single character prefixes.  The result is [raised, text]: raised when
\* an index the code evaluates is out of range.
strip_single_char(t) ==
    IF ~SingleCharGuard(t) THEN [raised |-> FALSE, text |-> t]
    ELSE
      LET first_char == PyIndex(t, 0)
          rest_of_text == Drop(t, 1)
          \* Pattern 1: `rest_of_text and rest_of_text[0].isupper()`
          p1_reads == rest_of_text # ""
          p1_upper == p1_reads /\ IsUpper(PyIndex(rest_of_text, 0))
          artifact1 == p1_upper /\ (IsAlnum(first_char) \/ InChars(first_char, common_symbols))
          \* Pattern 2
          p2_entered == ~artifact1 /\ Pattern2Guard(rest_of_text)
          p2_punct == p2_entered /\ InChars(PyIndex(rest_of_text, 0), ".,;:!?")
          p2_space == p2_punct /\ PyIndex(rest_of_text, 1) = " "
          after_punct == Drop(rest_of_text, 2)
          artifact2 == p2_space /\ StartsWithStarter(after_punct)
          text2 == IF artifact2
                   THEN IF InChars(UpperChar(first_char), "K") /\ StartsWith(rest_of_text, ", ")
                        THEN "OK" \o rest_of_text
                        ELSE rest_of_text
                   ELSE t
          \* Pattern 3
          artifact3 == /\ ~(artifact1 \/ artifact2)
                       /\ Pattern3Guard(rest_of_text)
                       /\ StartsWithStarter(rest_of_text)
          is_likely_artifact == artifact1 \/ artifact2 \/ artifact3
          raised == \/ first_char = IndexError
                    \/ (p1_reads /\ PyIndex(rest_of_text, 0) = IndexError)
                    \/ (p2_entered /\ PyIndex(rest_of_text, 0) = IndexError)
                    \/ (p2_punct /\ PyIndex(rest_of_text, 1) = IndexError)
      IN [raised |-> raised,
          \* `if is_likely_artifact: text = rest_of_text` runs last
          text |-> IF is_likely_artifact THEN rest_of_text ELSE text2]

reaction_phrases == {"Emphasized \"", "Liked \"", "Disliked \""}

reaction_patterns == <<
    <<DotStar, Lit({"Emphasized"}), Spaces, DotStar, Eos>>,
    <<DotStar, Lit({"Liked"}), Spaces, DotStar, Eos>>,
    <<DotStar, Lit({"Disliked"}), Spaces, DotStar, Eos>>
>>

\* Mutant: the phrases looked for at the beginning only.
has_reaction_phrase_at_start(t) == \E phrase \in reaction_phrases : StartsWith(t, phrase)

\* 6. `any(phrase in text ...)`
has_reaction_phrase(t) == \E phrase \in reaction_phrases : Contains(t, phrase)

\* 6. `re.match(pattern, text)` for some reaction pattern
matches_reaction_pattern(t) ==
    \E i \in 1..Len(reaction_patterns) : re_match(reaction_patterns[i], t)

\* 7. doubled quotes: text[1:-1]
unwrap_quotes(t) ==
    IF StartsWith(t, "\"\"") /\ EndsWith(t, "\"\"") THEN SubSeq(t, 2, Len(t) - 1) ELSE t

\* Stages 0 to 4
repair_prefix(t) ==
    fix_prefix(strip_leading_plus(strip_trailing_artifact(remove_control(strip_streamtyped(t)))))

\* clean_message_text(text): [raised, value]
clean_message_text(t) ==
    IF t = "" THEN [raised |-> FALSE, value |-> ""]
    ELSE
      LET s5 == strip_single_char(repair_prefix(t)) IN
      IF s5.raised THEN [raised |-> TRUE, value |-> ""]
      ELSE IF has_reaction_phrase(s5.text) THEN [raised |-> FALSE, value |-> ""]
      ELSE IF matches_reaction_pattern(s5.text) THEN [raised |-> FALSE, value |-> ""]
      ELSE [raised |-> FALSE, value |-> Strip(unwrap_quotes(s5.text))]

(***************************************************************************)
(* The normalizer as a pure function: a text is put together from          *)
(* fragments, cleaned, and the result cleaned again.                       *)
(***************************************************************************)
NormFragments == {
    "T", "Good morning", "K", "B", "oK", ", ", ". ", "I'm here", "J", "Don't",
    "+", "iI", "streamtyped @ NSString+", "ï¿¼", "\f", "\n", "\"\"",
    "Liked \"", "Liked\t"
}

ExtractorIdle ==
    /\ infile = <<>>
    /\ csv = <<>>
    /\ df = <<>>
    /\ requests = <<>>
    /\ outcome = <<>>
    /\ pos = 0
    /\ runs = 0
    /\ exported = [table |-> <<>>, monthly |-> {}, total_requests |-> 0]
    /\ cleanlog = ""
    /\ exit_code = "none"

InitNorm ==
    /\ text = ""
    /\ np = 0
    /\ pc = "build"
    /\ cleaned = ""
    /\ recleaned = ""
    /\ exc = "none"
    /\ ExtractorIdle

AppendPiece(f) ==
    /\ pc = "build"
    /\ np < MaxPieces
    /\ text' = text \o f
    /\ np' = np + 1
    /\ UNCHANGED <<pc, cleaned, recleaned, exc, extrVars>>

\* cleaned_text = clean_message_text(row.get(...))
Clean ==
    /\ pc = "build"
    /\ LET r == clean_message_text(text) IN
         /\ pc' = IF r.raised THEN "raised" ELSE "cleaned"
         /\ exc' = IF r.raised THEN "IndexError" ELSE "none"
         /\ cleaned' = r.value
    /\ UNCHANGED <<text, np, recleaned, extrVars>>

\* clean_message_text applied to its own output
Reclean ==
    /\ pc = "cleaned"
    /\ LET r == clean_message_text(cleaned) IN
         /\ pc' = IF r.raised THEN "raised" ELSE "recleaned"
         /\ exc' = IF r.raised THEN "IndexError" ELSE "none"
         /\ recleaned' = r.value
    /\ UNCHANGED <<text, np, cleaned, extrVars>>

NextNorm ==
    \/ \E f \in NormFragments : AppendPiece(f)
    \/ Clean
    \/ Reclean

SpecNorm == InitNorm /\ [][NextNorm]_vars

(***************************************************************************)
(* Claims about the normalizer, checked under SpecNorm.                    *)
(***************************************************************************)

\* C1: clean_message_text is total: whatever the input (the empty string,
\* strings of one to four characters, strings made only of artifacts), the
\* call returns a string and raises nothing, and the empty input gives the
\* empty string.
C1_NormalizeTotal ==
    /\ pc # "raised"
    /\ exc = "none"
    /\ cleaned \in STRING
    /\ recleaned \in STRING
    /\ (pc = "cleaned" /\ text = "") => cleaned = ""

\* A text of one to four characters made only of artifacts has been cleaned
\* to the empty string.
C1_Witness ==
    /\ pc = "cleaned"
    /\ Len(text) \in 1..4
    /\ np > 1
    /\ cleaned = ""

\* C4 as stated: cleaning the cleaned text again changes nothing, for every
\* input.
C4_IdempotentAlways == pc = "recleaned" => recleaned = cleaned

\* A cleaned text in which no stage of the normalizer finds anything to
\* repair: trimmed, no wrapper, no replacement sequence or control character,
\* no iI marker, no leading '+', no table prefix, none of the three
\* single-character shapes, no reaction word, no doubled-quote wrapping.
CleanShape(y) ==
    /\ y = "" \/ (Char(y, 1) \notin Whitespace /\ Char(y, Len(y)) \notin Whitespace)
    /\ ~StartsWith(y, "streamtyped")
    /\ ~Contains(y, "ï¿¼")
    /\ \A i \in 1..Len(y) : Char(y, i) # "\f"
    /\ ~Contains(y, "iI")
    /\ ~StartsWith(y, "+")
    /\ \A i \in 1..Len(patterns) : ~StartsWith(y, patterns[i][1])
    /\ Len(y) > 1 =>
         ~(InChars(Char(y, 2), UpperAlphabet)
           /\ (IsAlnum(Char(y, 1)) \/ InChars(Char(y, 1), common_symbols)))
    /\ Len(y) > 4 =>
         ~(InChars(Char(y, 2), ".,;:!?") /\ Char(y, 3) = " "
           /\ \E i \in 1..Len(common_starters) : OccursAt(y, 4, common_starters[i]))
    /\ Len(y) > 3 =>
         ~(\E i \in 1..Len(common_starters) : OccursAt(y, 2, common_starters[i]))
    /\ \A w \in {"Emphasized", "Liked", "Disliked"} : ~Contains(y, w)
    /\ ~(StartsWith(y, "\"\"") /\ EndsWith(y, "\"\""))

\* C4, amended: the normalizer is idempotent on clean output.  When the
\* cleaned text shows none of the artifact shapes the stages rewrite,
\* cleaning it again returns it unchanged.
C4_IdempotentOnClean ==
    (pc = "recleaned" /\ CleanShape(cleaned)) => recleaned = cleaned

\* A text the first pass repaired, whose clean result the second pass left
\* alone.
C4_Witness ==
    /\ pc = "recleaned"
    /\ cleaned # ""
    /\ cleaned # text
    /\ CleanShape(cleaned)
    /\ recleaned = cleaned

\* C6 as stated: every raw message that contains one of the literal reaction
\* substrings is cleaned to the empty string.
C6_ReactionInRawDiscarded ==
    (pc = "cleaned" /\ \E w \in {"Emphasized \"", "Liked \"", "Disliked \""} : Contains(text, w))
        => cleaned = ""

\* C6, amended: every raw message in which one of the literal reaction
\* substrings is still there after the wrapper, control-character and
\* trailing-artifact stripping is cleaned to the empty string, whatever the
\* prefix repairs did before.
C6_ReactionDiscarded ==
    (/\ pc = "cleaned"
     /\ \E w \in {"Emphasized \"", "Liked \"", "Disliked \""} :
           Contains(strip_trailing_artifact(remove_control(strip_streamtyped(text))), w))
        => cleaned = ""

\* A reaction text that sits behind a repaired prefix and on a second line,
\* discarded.
C6_Witness ==
    /\ pc = "cleaned"
    /\ text # ""
    /\ Contains(text, "\nLiked \"")
    /\ ~StartsWith(text, "\n")
    /\ Contains(strip_trailing_artifact(remove_control(strip_streamtyped(text))), "Liked \"")
    /\ cleaned = ""

(***************************************************************************)
(* The rule tables of request_patterns.py.  Every pattern is compiled with *)
(* re.IGNORECASE: it is matched, with its literals in lower case, against  *)
(* the lowered text.                                                       *)
(***************************************************************************)
Rx(alts) == alts

REQUEST_PATTERNS == <<
    [pattern |-> Rx(<< <<Lit({"add"}), DotStar, Lit({"webhook"}), DotStar, Lit({"fluent"})>> >>),
     type |-> "Form Integration", category |-> "Forms", default_effort |-> "Small"],
    [pattern |-> Rx(<< <<Lit({"gravity form"}), DotStar, Lit({"webhook"})>> >>),
     type |-> "Form Integration", category |-> "Forms", default_effort |-> "Small"],
    [pattern |-> Rx(<< <<Lit({"nameserver"}), DotStar, Lit({"cutover"})>> >>),
     type |-> "DNS Cutover", category |-> "DNS", default_effort |-> "Medium"],
    [pattern |-> Rx(<< <<Lit({"migrat"}), DotStar, Lit({"site", "website"})>> >>),
     type |-> "Site Migration", category |-> "Hosting", default_effort |-> "Large"],
    [pattern |-> Rx(<< <<Lit({"backup"})>>, <<Lit({"zip"}), DotStar, Lit({"site"})>> >>),
     type |-> "Backup Request", category |-> "Hosting", default_effort |-> "Medium"],
    [pattern |-> Rx(<< <<Lit({"remove"}), DotStar, Lit({"form"})>> >>),
     type |-> "Form Removal", category |-> "Forms", default_effort |-> "Small"],
    [pattern |-> Rx(<< <<Lit({"please use this email"})>> >>),
     type |-> "Email Routing", category |-> "Email", default_effort |-> "Small"],
    [pattern |-> Rx(<< <<Lit({"update"}), DotStar, Lit({"license"})>> >>),
     type |-> "License Update", category |-> "Billing", default_effort |-> "Small"],
    [pattern |-> Rx(<< <<Lit({"can you"}), DotStar,
                         Lit({"add", "create", "update", "fix", "check"})>> >>),
     type |-> "General Request", category |-> "Support", default_effort |-> "Medium"],
    [pattern |-> Rx(<< <<Lit({"need"}), Lit({"s", ""}), Spaces, Lit({"to", "you", "help"})>> >>),
     type |-> "General Request", category |-> "Support", default_effort |-> "Medium"]
>>

URGENCY_INDICATORS == [
    high |-> <<"urgent", "asap", "immediately", "today", "critical", "emergency", "100% by">>,
    low |-> <<"when you can", "no rush", "whenever", "eventually">>,
    medium |-> <<>>
]

ACTION_KEYWORDS == <<
    "please", "can you", "could you", "need", "add", "update", "fix",
    "create", "setup", "configure", "install", "remove", "delete",
    "check", "review", "test", "migrate", "backup"
>>

WORK_KEYWORDS == <<
    "website", "site", "domain", "dns", "nameserver", "hosting",
    "form", "webhook", "email", "leads", "tag", "pixel", "analytics",
    "wordpress", "elementor", "plugin", "staging", "migration",
    "backup", "license", "credential", "login", "password"
>>

EXCLUSION_PATTERNS == <<
    Rx(<< <<Bos, Lit({"all good"})>> >>),
    Rx(<< <<Bos, Lit({"got it"})>> >>),
    Rx(<< <<Bos, Lit({"perfect"})>> >>),
    Rx(<< <<Bos, Lit({"thank"}), Lit({"s", ""}), Eos>> >>),
    Rx(<< <<Bos, Lit({"thank you"})>> >>),
    Rx(<< <<Bos, Lit({"ok"}), Eos>> >>),
    Rx(<< <<Bos, Lit({"okay"}), Eos>> >>),
    Rx(<< <<Bos, Lit({"yes"}), Eos>> >>),
    Rx(<< <<Bos, Lit({"no"}), Eos>> >>),
    Rx(<< <<Bos, Lit({"sounds good"})>> >>),
    Rx(<< <<Bos, Lit({"works for me"})>> >>),
    Rx(<< <<Bos, Lit({"let me know"})>> >>),
    Rx(<< <<Lit({"just wanted to "}), Lit({"let you know", "update", "mention"})>> >>),
    Rx(<< <<Lit({"got some "}), DotStar, Lit({" that might"})>> >>),
    Rx(<< <<Bos, Lit({"i'll "}), Lit({"call", "text", "email"})>> >>),
    Rx(<< <<Bos, Lit({"just "}), Lit({"called", "texted", "emailed"})>> >>),
    Rx(<< <<Lit({"respectfully"})>> >>),
    Rx(<< <<Bos, Lit({"sorry to bother"})>> >>),
    Rx(<< <<Bos, Lit({"lol"}), Eos>> >>),
    Rx(<< <<Bos, Lit({"haha"})>> >>)
>>

NON_REQUEST_PHRASES == <<
    "all good", "got it", "perfect", "sounds good", "works for me",
    "let me know", "just wanted to update", "just fyi", "heads up",
    "by the way", "btw", "just so you know", "for what it's worth"
>>

\* phrase.lower() of every phrase
phrases_lower == [i \in 1..Len(NON_REQUEST_PHRASES) |-> Lower(NON_REQUEST_PHRASES[i])]

(***************************************************************************)
(* RequestExtractor.                                                       *)
(***************************************************************************)
None == "<None>"

\* `if x:` for x a string or None
Truthy(x) == x # None /\ x # ""

\* Mutant: the low indicators looked at before the high ones.
extract_urgency_low_first(t) ==
    LET text_lower == Lower(t) IN
    IF \E i \in 1..Len(URGENCY_INDICATORS.low) : Contains(text_lower, URGENCY_INDICATORS.low[i])
    THEN "Low"
    ELSE IF \E i \in 1..Len(URGENCY_INDICATORS.high) : Contains(text_lower, URGENCY_INDICATORS.high[i])
    THEN "High"
    ELSE "Medium"

extract_urgency(t) ==
    LET text_lower == Lower(t) IN
    IF \E i \in 1..Len(URGENCY_INDICATORS.high) : Contains(text_lower, URGENCY_INDICATORS.high[i])
    THEN "High"
    ELSE IF \E i \in 1..Len(URGENCY_INDICATORS.low) : Contains(text_lower, URGENCY_INDICATORS.low[i])
    THEN "Low"
    ELSE "Medium"

\* Mutant: only one-token messages count as short.
is_short_message_one_token(text_lower) ==
    CountTokens(text_lower) < 2 /\ text_lower \notin {"please help", "need help"}

\* `len(text_lower.split()) <= 2 and text_lower not in [...]`
is_short_message(text_lower) ==
    CountTokens(text_lower) <= 2 /\ text_lower \notin {"please help", "need help"}

\* Mutant: a conversational phrase excludes wherever it stands in the text.
is_excluded_message_phrase_anywhere(t) ==
    LET lowered == Lower(t)
        text_lower == Strip(lowered)
    IN
    \/ \E phrase \in {"Emphasized \"", "Liked \"", "Disliked \""} : Contains(t, phrase)
    \/ \E keyword \in {"emphasized ", "liked ", "disliked "} : Contains(text_lower, keyword)
    \/ \E i \in 1..Len(EXCLUSION_PATTERNS) : re_search(EXCLUSION_PATTERNS[i], lowered)
    \/ \E i \in 1..Len(NON_REQUEST_PHRASES) : Contains(text_lower, phrases_lower[i])
    \/ is_short_message(text_lower)

is_excluded_message(t) ==
    LET lowered == Lower(t)
        text_lower == Strip(lowered)
    IN
    \/ \E phrase \in {"Emphasized \"", "Liked \"", "Disliked \""} : Contains(t, phrase)
    \/ \E keyword \in {"emphasized ", "liked ", "disliked "} : Contains(text_lower, keyword)
    \/ \E i \in 1..Len(EXCLUSION_PATTERNS) : re_search(EXCLUSION_PATTERNS[i], lowered)
    \/ \E i \in 1..Len(NON_REQUEST_PHRASES) : StartsWith(text_lower, phrases_lower[i])
    \/ is_short_message(text_lower)

has_work_keyword(text_lower) ==
    \E i \in 1..Len(WORK_KEYWORDS) : Contains(text_lower, WORK_KEYWORDS[i])

has_action_keyword(text_lower) ==
    \E i \in 1..Len(ACTION_KEYWORDS) : Contains(text_lower, ACTION_KEYWORDS[i])

\* Mutant: one of the two signals is enough.
is_work_related_either(t) ==
    LET text_lower == Lower(t) IN
    IF is_excluded_message(t) THEN FALSE
    ELSE has_work_keyword(text_lower) \/ has_action_keyword(text_lower)

is_work_related(t) ==
    LET text_lower == Lower(t) IN
    IF is_excluded_message(t) THEN FALSE
    ELSE has_work_keyword(text_lower) /\ has_action_keyword(text_lower)

\* The rules of REQUEST_PATTERNS whose pattern is found in the text
matching_rules(t) ==
    LET lowered == Lower(t) IN
    {i \in 1..Len(REQUEST_PATTERNS) : re_search(REQUEST_PATTERNS[i].pattern, lowered)}

\* Mutant: the loop runs to its end and the last matching rule is returned.
winning_rule_last(hits) == Max(hits)

\* The `for pattern_info in REQUEST_PATTERNS` loop returns at its first match.
winning_rule(hits) == Min(hits)

\* Mutant: the pattern table consulted before the exclusion test.
extract_request_type_patterns_first(t) ==
    LET hits == matching_rules(t) IN
    IF hits # {}
    THEN LET pattern_info == REQUEST_PATTERNS[winning_rule(hits)] IN
         [ret |-> "pattern",
          value |-> <<pattern_info.type, pattern_info.category, pattern_info.default_effort>>]
    ELSE IF is_excluded_message(t)
    THEN [ret |-> "excluded", value |-> <<None, None, None>>]
    ELSE IF is_work_related(t)
    THEN [ret |-> "fallback", value |-> <<"General Request", "Support", "Medium">>]
    ELSE [ret |-> "none", value |-> <<None, None, None>>]

\* Mutant: the fallback returns a type without its category.
extract_request_type_partial(t) ==
    IF is_excluded_message(t)
    THEN [ret |-> "excluded", value |-> <<None, None, None>>]
    ELSE
      LET hits == matching_rules(t) IN
      IF hits # {}
      THEN LET pattern_info == REQUEST_PATTERNS[winning_rule(hits)] IN
           [ret |-> "pattern",
            value |-> <<pattern_info.type, pattern_info.category, pattern_info.default_effort>>]
      ELSE IF is_work_related(t)
      THEN [ret |-> "fallback", value |-> <<"General Request", None, "Medium">>]
      ELSE [ret |-> "none", value |-> <<None, None, None>>]

\* extract_request_type(text): the tuple returned, and which of the four
\* return statements returned it.
extract_request_type(t) ==
    IF is_excluded_message(t)
    THEN [ret |-> "excluded", value |-> <<None, None, None>>]
    ELSE
      LET hits == matching_rules(t) IN
      IF hits # {}
      THEN LET pattern_info == REQUEST_PATTERNS[winning_rule(hits)] IN
           [ret |-> "pattern",
            value |-> <<pattern_info.type, pattern_info.category, pattern_info.default_effort>>]
      ELSE IF is_work_related(t)
      THEN [ret |-> "fallback", value |-> <<"General Request", "Support", "Medium">>]
      ELSE [ret |-> "none", value |-> <<None, None, None>>]

\* The character limit the truncation diagnostic looks for.
TruncationLimit == 150

\* Mutant: the description cut at the limit.
make_description_truncated(t) ==
    LET d == Strip(CollapseWs(t)) IN
    IF Len(d) > TruncationLimit THEN SubSeq(d, 1, TruncationLimit) ELSE d

\* `description = re.sub(r'\s+', ' ', text).strip()`
make_description(t) == Strip(CollapseWs(t))

(***************************************************************************)
(* pandas, as far as load_data uses it.                                    *)
(***************************************************************************)
\* The fields read_csv turns into NaN
NaValues == {"", "#N/A", "N/A", "NA", "NULL", "NaN", "n/a", "nan", "null", "None"}

\* The message_date values of the model that pd.to_datetime parses; any
\* other value raises.
KnownDates == {"2025-01-15 10:30:00", "2025-02-03 09:00:00"}

\* The columns load_data derives from a message_date
to_datetime(d) ==
    [datetime |-> d,
     date |-> SubSeq(d, 1, 10),
     time |-> SubSeq(d, 12, 19),
     month |-> SubSeq(d, 1, 7)]

\* Mutant: the sender is not looked at.
IsTrackedRow_any_sender(row) == row.message_text \notin NaValues

\* `((sender == 'Thad Norman') | (sender == 'Them')) & message_text.notna()`
IsTrackedRow(row) ==
    /\ row.sender \in {"Thad Norman", "Them"}
    /\ row.message_text \notin NaValues

RECURSIVE TrackedRows(_)
\* The rows of the file that load_data keeps, in order
TrackedRows(rows) ==
    IF rows = <<>> THEN <<>>
    ELSE IF IsTrackedRow(Head(rows)) THEN <<Head(rows)>> \o TrackedRows(Tail(rows))
    ELSE TrackedRows(Tail(rows))

(***************************************************************************)
(* The operations of RequestExtractor.                                     *)
(***************************************************************************)
Senders == {"Thad Norman", "Them", "Me"}

\* load_data(): read the file, keep the tracked correspondent's rows that
\* have a text, derive the date columns.
load_data ==
    /\ pc = "file"
    /\ LET kept == TrackedRows(csv)
           parses == \A i \in 1..Len(kept) : kept[i].message_date \in KnownDates
       IN IF parses
          THEN /\ df' = [i \in 1..Len(kept) |->
                           [sender |-> kept[i].sender,
                            message_text |-> kept[i].message_text,
                            message_date |-> kept[i].message_date,
                            datetime |-> to_datetime(kept[i].message_date).datetime,
                            date |-> to_datetime(kept[i].message_date).date,
                            time |-> to_datetime(kept[i].message_date).time,
                            month |-> to_datetime(kept[i].message_date).month]]
               /\ pc' = "loaded"
               /\ exc' = "none"
          ELSE /\ df' = kept
               /\ pc' = "raised"
               /\ exc' = "ValueError"
    /\ pos' = 0
    /\ UNCHANGED <<text, np, normVars, infile, csv, requests, outcome, runs, pipeVars>>

\* Mutant: the effort is filled in from the urgency.
make_request_effort_from_urgency(row, value) ==
    [datetime |-> row.datetime,
     date |-> row.date,
     time |-> row.time,
     month |-> row.month,
     request_type |-> value[1],
     category |-> value[2],
     description |-> make_description(row.message_text),
     urgency |-> extract_urgency(row.message_text),
     effort |-> extract_urgency(row.message_text),
     full_text |-> row.message_text,
     message_length |-> Len(row.message_text)]

\* The request process_messages builds from a row and its classification
make_request(row, value) ==
    [datetime |-> row.datetime,
     date |-> row.date,
     time |-> row.time,
     month |-> row.month,
     request_type |-> value[1],
     category |-> value[2],
     description |-> make_description(row.message_text),
     urgency |-> extract_urgency(row.message_text),
     effort |-> value[3],
     full_text |-> row.message_text,
     message_length |-> Len(row.message_text)]

\* Mutant: a High urgency stays on for the message that follows.
process_row_carries_urgency ==
    /\ pc = "loaded"
    /\ pos < Len(df)
    /\ \E r \in {extract_request_type(df[pos + 1].message_text)} :
          /\ requests' =
                IF Truthy(r.value[1])
                THEN requests \o
                     <<[make_request(df[pos + 1], r.value) EXCEPT
                          !.urgency = IF requests # <<>> /\ requests[Len(requests)].urgency = "High"
                                      THEN "High" ELSE @]>>
                ELSE requests
          /\ outcome' = outcome \o <<r.ret>>
    /\ pos' = pos + 1
    /\ UNCHANGED <<text, np, pc, normVars, exc, infile, csv, df, runs, pipeVars>>

\* Mutant: the request is appended twice.
process_row_appends_twice ==
    /\ pc = "loaded"
    /\ pos < Len(df)
    /\ \E r \in {extract_request_type(df[pos + 1].message_text)} :
          /\ requests' = IF Truthy(r.value[1])
                         THEN requests \o <<make_request(df[pos + 1], r.value),
                                            make_request(df[pos + 1], r.value)>>
                         ELSE requests
          /\ outcome' = outcome \o <<r.ret>>
    /\ pos' = pos + 1
    /\ UNCHANGED <<text, np, pc, normVars, exc, infile, csv, df, runs, pipeVars>>

\* Mutant: the new request is put in front of the earlier ones.
process_row_prepends ==
    /\ pc = "loaded"
    /\ pos < Len(df)
    /\ \E r \in {extract_request_type(df[pos + 1].message_text)} :
          /\ requests' = IF Truthy(r.value[1])
                         THEN <<make_request(df[pos + 1], r.value)>> \o requests
                         ELSE requests
          /\ outcome' = outcome \o <<r.ret>>
    /\ pos' = pos + 1
    /\ UNCHANGED <<text, np, pc, normVars, exc, infile, csv, df, runs, pipeVars>>

\* One iteration of the loop of process_messages()
process_row ==
    /\ pc = "loaded"
    /\ pos < Len(df)
    /\ \E r \in {extract_request_type(df[pos + 1].message_text)} :
          /\ requests' = IF Truthy(r.value[1])
                         THEN requests \o <<make_request(df[pos + 1], r.value)>>
                         ELSE requests
          /\ outcome' = outcome \o <<r.ret>>
    /\ pos' = pos + 1
    /\ UNCHANGED <<text, np, pc, normVars, exc, infile, csv, df, runs, pipeVars>>

\* The loop of process_messages() is over
process_done ==
    /\ pc = "loaded"
    /\ pos = Len(df)
    /\ pc' = "processed"
    /\ runs' = runs + 1
    /\ UNCHANGED <<text, np, normVars, exc, infile, csv, df, requests, outcome, pos, pipeVars>>

(***************************************************************************)
(* The extractor on a file of one message: the text is put together from   *)
(* fragments, written as the only row of the file, loaded and processed.   *)
(***************************************************************************)
LongFragment == "for the homepage banner and the footer links\n beside the dns booking calendar "

MsgFragments == {
    "Can you ", "add webhook ", "fluent", "got it ", "URGENT ", "when you can ",
    "Please ", "help", "need ", "they liked ", "ok\t", "\n\t ",
    "Thanks! ", "respectfully ", LongFragment
}

InitMsg ==
    /\ text = ""
    /\ np = 0
    /\ pc = "build"
    /\ cleaned = ""
    /\ recleaned = ""
    /\ exc = "none"
    /\ ExtractorIdle

\* The file holds one row, with the text as its message_text
WriteRow(sender, date) ==
    /\ pc = "build"
    /\ csv' = <<[sender |-> sender, message_text |-> text, message_date |-> date]>>
    /\ pc' = "file"
    /\ UNCHANGED <<text, np, normVars, exc, infile, df, requests, outcome, pos, runs, pipeVars>>

NextMsg ==
    \/ \E f \in MsgFragments : AppendPiece(f)
    \/ \E sender \in Senders : WriteRow(sender, "2025-01-15 10:30:00")
    \/ load_data
    \/ process_row
    \/ process_done

SpecMsg == InitMsg /\ [][NextMsg]_vars

\* The text as the prefix table finds it: stages 0 to 3
BeforeTable(t) ==
    strip_leading_plus(strip_trailing_artifact(remove_control(strip_streamtyped(t))))

\* What the stages after the single-character stage make of its result
AfterSingleChar(x) ==
    IF has_reaction_phrase(x) \/ matches_reaction_pattern(x) THEN ""
    ELSE Strip(unwrap_quotes(x))

\* What the stages after the prefix table make of its result
AfterTable(x) == AfterSingleChar(strip_single_char(x).text)

\* The table entries whose corrupted prefix the text starts with
TableHits(t) == {i \in 1..Len(patterns) : StartsWith(t, patterns[i][1])}

\* C17: the prefix table makes at most one replacement, that of the first
\* entry in table order whose corrupted prefix the text starts with, and
\* keeps the rest of the text; when no entry matches the stage changes
\* nothing.  The later stages work on that text.
C17_FirstTableEntryOnly ==
    (pc = "cleaned" /\ text # "") =>
        \A t \in {BeforeTable(text)} :
            IF TableHits(t) = {}
            THEN cleaned = AfterTable(t)
            ELSE \E j \in TableHits(t) :
                    /\ \A other \in TableHits(t) : j <= other
                    /\ cleaned = AfterTable(patterns[j][2] \o Drop(t, Len(patterns[j][1])))

\* A text that starts with two prefixes of the table, JDon't and JDon, has
\* been cleaned to the text behind the J.
C17_Witness ==
    /\ pc = "cleaned"
    /\ StartsWith(text, "JDon't, ")
    /\ Cardinality(TableHits(text)) = 2
    /\ cleaned = Strip(Drop(text, 1))

\* C18: when the text the single-character stage gets was not rewritten by
\* the prefix table, is longer than one character, has an alphanumeric or
\* listed symbol character first and an uppercase character second, the
\* stage drops exactly the first character and keeps the rest.
C18_Rule1DropsFirstChar ==
    (pc = "cleaned" /\ text # "") =>
        \A t \in {BeforeTable(text)} :
            (/\ TableHits(t) = {}
             /\ Len(t) > 1
             /\ IsAlnum(Char(t, 1)) \/ InChars(Char(t, 1), common_symbols)
             /\ IsUpper(Char(t, 2)))
                => cleaned = AfterSingleChar(Drop(t, 1))

\* BGood morning, which the table does not know, cleaned to Good morning.
C18_Witness ==
    /\ pc = "cleaned"
    /\ text = "BGood morning"
    /\ TableHits(text) = {}
    /\ cleaned = "Good morning"

\* C19: when the text the single-character stage gets starts with K, then
\* a comma and a space, then a common sentence starter, the stage gives OK
\* followed by the rest of the text, not the text with characters deleted.
C19_TruncatedOkRecovered ==
    (pc = "cleaned" /\ text # "") =>
        \A t \in {BeforeTable(text)} :
            (/\ TableHits(t) = {}
             /\ StartsWith(t, "K, ")
             /\ \E i \in 1..Len(common_starters) : OccursAt(t, 4, common_starters[i]))
                => cleaned = AfterSingleChar("OK" \o Drop(t, 1))

\* The text the single-character stage gets meets the conditions of its
\* pattern 2 and does not begin with K or k.
Rule2Case(x) ==
    /\ Len(x) > 4
    /\ ~IsUpper(Char(x, 2))
    /\ InChars(Char(x, 2), ".,;:!?")
    /\ Char(x, 3) = " "
    /\ StartsWithStarter(Drop(x, 3))
    /\ Char(x, 1) \notin {"K", "k"}

\* C22, as claimed: in the case of pattern 2 the leading character, the
\* punctuation mark and the space are all removed, so that the output begins
\* with the sentence starter that followed them.
C22_Rule2RemovesPunct ==
    (pc = "cleaned" /\ text # "") =>
        \A x \in {fix_prefix(BeforeTable(text))} :
            Rule2Case(x) =>
                \E i \in 1..Len(common_starters) :
                    /\ StartsWith(Drop(x, 3), common_starters[i])
                    /\ StartsWith(cleaned, common_starters[i])

\* C22, amended: in the case of pattern 2 only the leading character is
\* removed; unless the message is discarded as a reaction, the output is the
\* rest of the text, beginning with the punctuation mark and the space,
\* without its trailing whitespace.
C22_Rule2DropsFirstCharOnly ==
    (pc = "cleaned" /\ text # "") =>
        \A x \in {fix_prefix(BeforeTable(text))} :
            Rule2Case(x) =>
                IF has_reaction_phrase(Drop(x, 1)) \/ matches_reaction_pattern(Drop(x, 1))
                THEN cleaned = ""
                ELSE /\ cleaned = RStrip(Drop(x, 1))
                     /\ StartsWith(cleaned, SubSeq(x, 2, 3))
                     /\ StartsWithStarter(Drop(cleaned, 2))

\* B. Good morning cleaned to the text behind the B
C22_Witness ==
    /\ pc = "cleaned"
    /\ text = "B. Good morning"
    /\ Rule2Case(text)
    /\ cleaned = ". Good morning"

\* C24: when the text starts with a corrupted prefix of the table and the
\* message is not discarded, the output of the normalizer starts with the
\* corrected prefix of that entry: the single-character stage that follows
\* leaves the correction alone.
C24_CorrectionSurvives ==
    (pc = "cleaned" /\ text # "") =>
        \A j \in TableHits(text) :
            cleaned # "" => StartsWith(cleaned, patterns[j][2])

\* C25: on every text on which the reaction stage of the normalizer fires
\* (a reaction phrase in the text, or a reaction pattern matching it), the
\* exclusion test of the classifier is true as well.
C25_ClassifierCoversNormalizer ==
    (pc = "cleaned" /\ text # "") =>
        \A x \in {strip_single_char(repair_prefix(text)).text} :
            (has_reaction_phrase(x) \/ matches_reaction_pattern(x))
                => is_excluded_message(x)

(***************************************************************************)
(* Claims about the extractor, checked under SpecMsg.                      *)
(***************************************************************************)
\* The requests made from the text t
RequestsOf(t) == {k \in 1..Len(requests) : requests[k].full_text = t}

\* The classification a request carries
Triple(r) == <<r.request_type, r.category, r.effort>>

\* C2: a message on which the exclusion test is true never becomes a
\* request, whatever pattern rule or keywords its text also carries.
C2_ExcludedNeverRequest ==
    \A i \in 1..pos :
        is_excluded_message(df[i].message_text) => RequestsOf(df[i].message_text) = {}

\* A text that starts with "got it", matches rule 1 and holds a work and an
\* action keyword has been processed and left no request.
C2_Witness ==
    /\ pc = "processed"
    /\ pos = 1
    /\ requests = <<>>
    /\ StartsWith(df[1].message_text, "got it")
    /\ 1 \in matching_rules(df[1].message_text)
    /\ has_work_keyword(Lower(df[1].message_text))
    /\ has_action_keyword(Lower(df[1].message_text))
    /\ is_excluded_message(df[1].message_text)

\* C3: a message that is not excluded and matches a pattern rule becomes a
\* request that carries the type, category and effort of the matching rule
\* of lowest index.
C3_FirstMatchWins ==
    \A i \in 1..pos : \A hits \in {matching_rules(df[i].message_text)} :
        (hits # {} /\ ~is_excluded_message(df[i].message_text)) =>
            /\ RequestsOf(df[i].message_text) # {}
            /\ \A k \in RequestsOf(df[i].message_text) : \E j \in hits :
                  /\ \A other \in hits : j <= other
                  /\ Triple(requests[k]) = <<REQUEST_PATTERNS[j].type,
                                             REQUEST_PATTERNS[j].category,
                                             REQUEST_PATTERNS[j].default_effort>>

\* A text matching rule 1 and the generic "can you ... add" rule has become
\* a Forms request.
C3_Witness ==
    /\ pc = "processed"
    /\ Len(requests) = 1
    /\ requests[1].category = "Forms"
    /\ {1, 9} \subseteq matching_rules(requests[1].full_text)
    /\ REQUEST_PATTERNS[9].category = "Support"

\* What position i of the text t gives to the text with its whitespace runs
\* made single spaces and its ends trimmed: the character itself, one space
\* for the first character of an inner run, nothing otherwise.
SpaceJoinedAt(t, i) ==
    IF Char(t, i) \notin Whitespace THEN Char(t, i)
    ELSE IF /\ i > 1
            /\ Char(t, i - 1) \notin Whitespace
            /\ \E j \in (i + 1)..Len(t) : Char(t, j) \notin Whitespace
    THEN " "
    ELSE ""

RECURSIVE SpaceJoinedBetween(_, _, _)
SpaceJoinedBetween(t, lo, hi) ==
    IF lo > hi THEN ""
    ELSE IF lo = hi THEN SpaceJoinedAt(t, lo)
    ELSE SpaceJoinedBetween(t, lo, (lo + hi) \div 2)
             \o SpaceJoinedBetween(t, (lo + hi) \div 2 + 1, hi)

SpaceJoined(t) == SpaceJoinedBetween(t, 1, Len(t))

\* C5: the description of a request is the message text with every run of
\* whitespace made one space and the ends trimmed, whatever its length: it is
\* never cut at a fixed number of characters.
C5_NoTruncation ==
    \A k \in 1..Len(requests) :
        requests[k].description = SpaceJoined(requests[k].full_text)

\* A request whose description is longer than the limit the truncation
\* diagnostic looks for, and shorter than its text by the collapsed runs.
C5_Witness ==
    /\ pc = "processed"
    /\ Len(requests) = 1
    /\ Len(requests[1].description) > TruncationLimit
    /\ Len(requests[1].description) < requests[1].message_length - 1

\* C7: no request has a full_text that holds a reaction literal, or whose
\* lowercased form holds a reaction keyword.
C7_NoReactionRequests ==
    \A k \in 1..Len(requests) :
        /\ \A phrase \in {"Emphasized \"", "Liked \"", "Disliked \""} :
               ~Contains(requests[k].full_text, phrase)
        /\ \A keyword \in {"emphasized ", "liked ", "disliked "} :
               ~Contains(Lower(requests[k].full_text), keyword)

\* C8: the urgency of a request is High when its lowercased text holds a
\* high indicator, else Low when it holds a low indicator, else Medium.
C8_UrgencyPrecedence ==
    \A k \in 1..Len(requests) : \A lowered \in {Lower(requests[k].full_text)} :
        \A high \in {\E i \in 1..Len(URGENCY_INDICATORS.high) :
                         Contains(lowered, URGENCY_INDICATORS.high[i])} :
        \A low \in {\E i \in 1..Len(URGENCY_INDICATORS.low) :
                        Contains(lowered, URGENCY_INDICATORS.low[i])} :
            /\ high => requests[k].urgency = "High"
            /\ (~high /\ low) => requests[k].urgency = "Low"
            /\ (~high /\ ~low) => requests[k].urgency = "Medium"

\* A request whose text holds "urgent" and "when you can" is High.
C8_Witness ==
    /\ pc = "processed"
    /\ Len(requests) = 1
    /\ Contains(Lower(requests[1].full_text), "urgent")
    /\ Contains(Lower(requests[1].full_text), "when you can")
    /\ requests[1].urgency = "High"

\* C9: a message that is not excluded and matches no pattern rule becomes a
\* request exactly when its lowercased text holds a work keyword and an
\* action keyword, and the request is (General Request, Support, Medium).
C9_FallbackIsAnd ==
    \A i \in 1..pos : \A t \in {df[i].message_text} :
        (matching_rules(t) = {} /\ ~is_excluded_message(t)) =>
            IF has_work_keyword(Lower(t)) /\ has_action_keyword(Lower(t))
            THEN /\ RequestsOf(t) # {}
                 /\ \A k \in RequestsOf(t) :
                        Triple(requests[k]) = <<"General Request", "Support", "Medium">>
            ELSE RequestsOf(t) = {}

\* The fallback has made a request of one message.
C9_Witness ==
    /\ pc = "processed"
    /\ outcome = <<"fallback">>
    /\ Len(requests) = 1
    /\ matching_rules(requests[1].full_text) = {}
    /\ Triple(requests[1]) = <<"General Request", "Support", "Medium">>

\* C10: a message of two or fewer whitespace-separated tokens is excluded,
\* unless its lowercased trimmed form is exactly "please help" or
\* "need help", which the short-message rule lets through.
C10_ShortMessages ==
    \A i \in 1..pos : \A form \in {Strip(Lower(df[i].message_text))} :
        /\ (CountTokens(form) <= 2 /\ form \notin {"please help", "need help"})
               => outcome[i] = "excluded"
        /\ form \in {"please help", "need help"} => outcome[i] # "excluded"

\* "Please help" has been processed and was not excluded.
C10_Witness ==
    /\ pc = "processed"
    /\ pos = 1
    /\ df[1].message_text = "Please help"
    /\ outcome[1] # "excluded"

\* The listed conversational phrases, in lower case
ListedPhrases == {Lower(NON_REQUEST_PHRASES[p]) : p \in 1..Len(NON_REQUEST_PHRASES)}

\* C20: the conversational-phrase test excludes a text exactly when its
\* lowercased trimmed form starts with a listed phrase: a text of more than
\* two tokens that no reaction test and no exclusion expression catches and
\* that does not start with a listed phrase is not excluded, wherever else a
\* phrase stands in it, and goes on to classification.
C20_PhraseOnlyAsPrefix ==
    \A i \in 1..pos : \A lowered \in {Lower(df[i].message_text)} :
        \A form \in {Strip(lowered)} :
            /\ (\E phrase \in ListedPhrases : StartsWith(form, phrase))
                   => outcome[i] = "excluded"
            /\ (/\ CountTokens(form) > 2
                /\ \A phrase \in {"Emphasized \"", "Liked \"", "Disliked \""} :
                       ~Contains(df[i].message_text, phrase)
                /\ \A keyword \in {"emphasized ", "liked ", "disliked "} :
                       ~Contains(form, keyword)
                /\ \A p \in 1..Len(EXCLUSION_PATTERNS) :
                       ~re_search(EXCLUSION_PATTERNS[p], lowered)
                /\ \A phrase \in ListedPhrases : ~StartsWith(form, phrase))
                   => outcome[i] \in {"pattern", "fallback", "none"}

\* A sentence that opens with Thanks, holds "got it" further on and asks
\* for work has been classified.
C20_Witness ==
    /\ pc = "processed"
    /\ pos = 1
    /\ StartsWith(df[1].message_text, "Thanks! ")
    /\ Contains(df[1].message_text, "got it")
    /\ CountTokens(Strip(df[1].message_text)) > 2
    /\ outcome = <<"fallback">>
    /\ Len(requests) = 1

\* Some conversational expression matches somewhere in the lowered text
RegexExcludes(lowered) ==
    \E p \in 1..Len(EXCLUSION_PATTERNS) : re_search(EXCLUSION_PATTERNS[p], lowered)

\* What the seventeen expressions written with ^ ask of a lowered text: one
\* of the openings at its first character, or one of the words as the whole
\* text (a final line break aside)
StartAnchored(lowered) ==
    \/ \E h \in {"all good", "got it", "perfect", "thank you", "sounds good",
                 "works for me", "let me know", "i'll call", "i'll text",
                 "i'll email", "just called", "just texted", "just emailed",
                 "sorry to bother", "haha"} : StartsWith(lowered, h)
    \/ \E w \in {"thank", "thanks", "ok", "okay", "yes", "no", "lol"} :
          lowered = w \/ lowered = w \o "\n"

\* What the three expressions written without ^ ask of a lowered text
Unanchored(lowered) ==
    \/ Contains(lowered, "respectfully")
    \/ \E v \in {"let you know", "update", "mention"} :
          Contains(lowered, "just wanted to " \o v)
    \/ \E p \in 1..Len(lowered) :
          /\ OccursAt(lowered, p, "got some ")
          /\ \E q \in (p + 9)..Len(lowered) :
                /\ OccursAt(lowered, q, " that might")
                /\ \A k \in (p + 9)..(q - 1) : Char(lowered, k) # "\n"

\* C23, as claimed: the expression list excludes a text only through a
\* match that begins at the first character of the text.
C23_AnchoredAtStart ==
    \A i \in 1..pos : \A lowered \in {Lower(df[i].message_text)} :
        RegexExcludes(lowered) =>
            \E p \in 1..Len(EXCLUSION_PATTERNS) : \E a \in 1..Len(EXCLUSION_PATTERNS[p]) :
                re_match(EXCLUSION_PATTERNS[p][a], lowered)

\* C23, amended: the expressions written with ^ match only at the first
\* character of the text, the three written without it (respectfully, just
\* wanted to ..., got some ... that might) match wherever they stand; the
\* list excludes a text in exactly these cases, and an excluded text is not
\* classified.
C23_AnchoredExceptThree ==
    \A i \in 1..pos : \A lowered \in {Lower(df[i].message_text)} :
        /\ RegexExcludes(lowered) <=> (StartAnchored(lowered) \/ Unanchored(lowered))
        /\ (StartAnchored(lowered) \/ Unanchored(lowered)) => outcome[i] = "excluded"

\* A request for work with respectfully in mid-sentence has been excluded.
C23_Witness ==
    /\ pc = "processed"
    /\ pos = 1
    /\ df[1].message_text = "Please respectfully add webhook "
    /\ ~StartAnchored(Lower(df[1].message_text))
    /\ outcome = <<"excluded">>
    /\ requests = <<>>

\* C26: every request carries the (type, category, effort) of one entry of
\* REQUEST_PATTERNS or the fallback triple, an urgency among High, Medium
\* and Low and an effort among Small, Medium and Large; its type is General
\* Request exactly when its category is Support, and its effort is then
\* Medium.
C26_ConsistentTriple ==
    \A k \in 1..Len(requests) :
        /\ \/ \E i \in 1..Len(REQUEST_PATTERNS) :
                 Triple(requests[k]) = <<REQUEST_PATTERNS[i].type,
                                         REQUEST_PATTERNS[i].category,
                                         REQUEST_PATTERNS[i].default_effort>>
           \/ Triple(requests[k]) = <<"General Request", "Support", "Medium">>
        /\ requests[k].urgency \in {"High", "Medium", "Low"}
        /\ requests[k].effort \in {"Small", "Medium", "Large"}
        /\ requests[k].request_type = "General Request" <=> requests[k].category = "Support"
        /\ requests[k].category = "Support" => requests[k].effort = "Medium"

\* An urgent request for a form integration: type, category and effort of
\* the first entry of the table, urgency High.
C26_Witness ==
    /\ pc = "processed"
    /\ Len(requests) = 1
    /\ outcome = <<"pattern">>
    /\ Triple(requests[1]) = <<"Form Integration", "Forms", "Small">>
    /\ requests[1].urgency = "High"

(***************************************************************************)
(* The pipeline on a batch: a raw export of a few rows is cleaned by       *)
(* process_csv, the cleaned file is loaded and processed, and the caller   *)
(* may call the extractor's methods again.                                 *)
(***************************************************************************)
MaxRows == 3
MaxRuns == 2

\* The rows a raw export is made of
BatchRows == {
    [sender |-> "Them", message_text |-> "OCan you add webhook fluent",
     message_date |-> "2025-01-15 10:30:00"],
    [sender |-> "Thad Norman", message_text |-> "Please fix the dns asap",
     message_date |-> "2025-02-03 09:00:00"],
    [sender |-> "Them", message_text |-> "got it",
     message_date |-> "2025-01-15 10:30:00"],
    [sender |-> "Them", message_text |-> "The dns is slow this week",
     message_date |-> "2025-01-15 10:30:00"],
    [sender |-> "Me", message_text |-> "Could you review the staging site",
     message_date |-> "2025-01-15 10:30:00"],
    [sender |-> "Them", message_text |-> "Liked \"check the site\"",
     message_date |-> "2025-01-15 10:30:00"],
    [sender |-> "Them", message_text |-> "Please update the plugin",
     message_date |-> "next tuesday-ish"],
    [sender |-> "Them", message_text |-> "Thanks! Can you also add a webhook?",
     message_date |-> "2025-02-03 09:00:00"]
}

\* A row with more fields than the header: csv.DictReader puts the surplus
\* under the key None (here "rest"), and DictWriter.writerow raises
\* ValueError on a key that is not a field name.
writerow_raises(row) == "rest" \in DOMAIN row

RECURSIVE CleanedRows(_)
\* The rows process_csv writes: each row with its message_text cleaned, up
\* to the row on which clean_message_text or writerow raises (the handler
\* of line 179 ends the loop there).
CleanedRows(rows) ==
    IF rows = <<>> THEN <<>>
    ELSE LET c == clean_message_text(Head(rows).message_text) IN
         IF c.raised \/ writerow_raises(Head(rows)) THEN <<>>
         ELSE <<[Head(rows) EXCEPT !.message_text = c.value]>> \o CleanedRows(Tail(rows))

InitBatch ==
    /\ text = ""
    /\ np = 0
    /\ pc = "export"
    /\ cleaned = ""
    /\ recleaned = ""
    /\ exc = "none"
    /\ ExtractorIdle

\* One more row in the raw export
AddRow(row) ==
    /\ pc = "export"
    /\ Len(infile) < MaxRows
    /\ infile' = infile \o <<row>>
    /\ UNCHANGED <<text, np, pc, normVars, exc, csv, df, requests, outcome, pos, runs, pipeVars>>

\* process_csv(input_file, output_file): the rows are cleaned and written
\* one by one; an exception is caught inside, reported on the console
\* ("An unexpected error occurred") and the call returns normally.
process_csv ==
    /\ pc = "export"
    /\ csv' = CleanedRows(infile)
    /\ cleanlog' = IF Len(CleanedRows(infile)) = Len(infile) THEN "processed" ELSE "error"
    /\ pc' = "file"
    /\ UNCHANGED <<text, np, normVars, exc, infile, df, requests, outcome, pos, runs,
                   exported, exit_code>>

\* The caller calls process_messages() once more on the same extractor.
process_messages_again ==
    /\ pc = "processed"
    /\ runs < MaxRuns
    /\ pc' = "loaded"
    /\ pos' = 0
    /\ outcome' = <<>>
    /\ UNCHANGED <<text, np, normVars, exc, infile, csv, df, requests, runs, pipeVars>>

\* The caller calls load_data() once more on the same extractor.
load_data_again ==
    /\ pc = "processed"
    /\ runs < MaxRuns
    /\ pc' = "file"
    /\ pos' = 0
    /\ outcome' = <<>>
    /\ UNCHANGED <<text, np, normVars, exc, infile, csv, df, requests, runs, pipeVars>>

\* The columns of requests_by_month.csv
csv_columns == {"date", "time", "month", "request_type", "category",
                "description", "urgency", "effort"}

\* `df_requests[csv_columns]`: one request restricted to the exported columns
csv_row(req) == [c \in csv_columns |-> req[c]]

\* The value of a decimal digit
DigitOf(c) == CHOOSE d \in 0..9 : Char("0123456789", d + 1) = c

RECURSIVE DatetimeLeq(_, _)
\* The order of two timestamps "YYYY-MM-DD hh:mm:ss", field by field from
\* the year down
DatetimeLeq(a, b) ==
    IF a = "" THEN TRUE
    ELSE IF Char(a, 1) = Char(b, 1) THEN DatetimeLeq(Drop(a, 1), Drop(b, 1))
    ELSE DigitOf(Char(a, 1)) < DigitOf(Char(b, 1))

\* `sort_values('datetime')`: the orders in which the records can come out,
\* as positions in the unsorted list; records with equal timestamps may come
\* out in either order.
sort_values(reqs) ==
    {p \in [1..Len(reqs) -> 1..Len(reqs)] :
        /\ \A i, j \in 1..Len(reqs) : i # j => p[i] # p[j]
        /\ \A i \in 1..Len(reqs) - 1 :
              DatetimeLeq(reqs[p[i]].datetime, reqs[p[i + 1]].datetime)}

\* create_monthly_summary(): per (month, category) group of a fresh frame,
\* the number of requests, of High ones, and the counts per effort.
create_monthly_summary(reqs) ==
    LET In(m, c) == {i \in 1..Len(reqs) : reqs[i].month = m /\ reqs[i].category = c}
    IN {[month |-> reqs[k].month,
         category |-> reqs[k].category,
         total_requests |-> Cardinality(In(reqs[k].month, reqs[k].category)),
         high_urgency_count |->
             Cardinality({i \in In(reqs[k].month, reqs[k].category) : reqs[i].urgency = "High"}),
         effort |-> [e \in {"Small", "Medium", "Large"} |->
             Cardinality({i \in In(reqs[k].month, reqs[k].category) : reqs[i].effort = e})]]
        : k \in 1..Len(reqs)}

\* Mutant: the list of requests itself is sorted.
export_results_sorts_in_place ==
    /\ pc = "processed"
    /\ IF requests = <<>>
       THEN UNCHANGED <<exported, requests>>
       ELSE \E p \in sort_values(requests) :
               /\ requests' = [i \in 1..Len(requests) |-> requests[p[i]]]
               /\ exported' = [table |-> [i \in 1..Len(requests) |-> csv_row(requests[p[i]])],
                               monthly |-> create_monthly_summary(requests),
                               total_requests |-> Len(requests)]
    /\ pc' = "exported"
    /\ UNCHANGED <<text, np, normVars, exc, infile, csv, df, outcome, pos, runs,
                   cleanlog, exit_code>>

\* export_results(output_dir): nothing is written when there are no requests;
\* otherwise a frame built from the requests is sorted by datetime and its
\* csv_columns are written, with the monthly summary and the totals.
export_results ==
    /\ pc = "processed"
    /\ IF requests = <<>>
       THEN exported' = exported
       ELSE \E p \in sort_values(requests) :
               exported' = [table |-> [i \in 1..Len(requests) |-> csv_row(requests[p[i]])],
                            monthly |-> create_monthly_summary(requests),
                            total_requests |-> Len(requests)]
    /\ pc' = "exported"
    /\ UNCHANGED <<text, np, normVars, exc, infile, csv, df, requests, outcome, pos, runs,
                   cleanlog, exit_code>>

NextBatch ==
    \/ \E row \in BatchRows : AddRow(row)
    \/ process_csv
    \/ load_data
    \/ process_row
    \/ process_done
    \/ process_messages_again
    \/ load_data_again

SpecBatch == InitBatch /\ [][NextBatch]_vars

(***************************************************************************)
(* Claims about the pipeline, checked under SpecBatch.                     *)
(***************************************************************************)
\* C11: every request has its request_type, category, effort and urgency
\* populated, and a message whose classification gave no request_type has
\* no record at all.
C11_AllOrNothing ==
    /\ \A k \in 1..Len(requests) :
           /\ Truthy(requests[k].request_type)
           /\ Truthy(requests[k].category)
           /\ Truthy(requests[k].effort)
           /\ requests[k].urgency \in {"High", "Medium", "Low"}
    /\ \A i \in 1..Len(outcome) :
           outcome[i] \in {"excluded", "none"} => RequestsOf(df[i].message_text) = {}

\* A batch with a message that became a request and one that was left
\* unclassified has been processed.
C11_Witness ==
    /\ pc = "processed"
    /\ Len(requests) = 1
    /\ Len(outcome) = 2
    /\ \E i \in 1..2 : outcome[i] = "none"
    /\ \E i \in 1..2 : outcome[i] = "fallback"

\* C12: a message whose cleaned text is empty, or whose sender is not the
\* tracked correspondent, gives no request and no error: every request has
\* a non-empty description and the text of a row of the cleaned file that
\* the tracked correspondent sent and that is not empty, and a file whose
\* timestamps parse is loaded and processed without an exception.
C12_SkippedYieldNothing ==
    /\ \A k \in 1..Len(requests) :
           /\ requests[k].description # ""
           /\ \E i \in 1..Len(csv) :
                  /\ csv[i].sender \in {"Thad Norman", "Them"}
                  /\ csv[i].message_text # ""
                  /\ csv[i].message_text = requests[k].full_text
    /\ (\A i \in 1..Len(csv) : csv[i].message_date \in KnownDates)
           => (exc = "none" /\ pc # "raised")

\* A batch with a message of another sender, a message cleaned to the empty
\* text and a request of the tracked correspondent has been processed.
C12_Witness ==
    /\ pc = "processed"
    /\ exc = "none"
    /\ Len(csv) = 3
    /\ \E i \in 1..3 : csv[i].sender = "Me"
    /\ \E i \in 1..3 : csv[i].message_text = "" /\ infile[i].message_text # ""
    /\ Len(requests) = 1

\* C13: in a run of process_messages a message that load_data kept goes to
\* exactly one of Excluded, Matched(pattern), Matched(fallback) and
\* Unclassified and stays there, a message load_data dropped (Discarded) is
\* never looked at, requests gains a record for the message exactly when it
\* is Matched, and the record goes after the records of the messages
\* processed before.
C13_MessageStateMachine ==
    /\ [](/\ Len(outcome) = pos
          /\ pos <= Len(df)
          /\ \A i \in 1..Len(df) :
                 df[i].sender \in {"Thad Norman", "Them"} /\ df[i].message_text # "")
    /\ [][/\ pos' = pos + 1 =>
              /\ outcome' = outcome \o <<outcome'[pos']>>
              /\ outcome'[pos'] \in {"excluded", "pattern", "fallback", "none"}
              /\ IF outcome'[pos'] \in {"pattern", "fallback"}
                 THEN /\ requests' = requests \o <<requests'[Len(requests')]>>
                      /\ requests'[Len(requests')].full_text = df[pos'].message_text
                 ELSE requests' = requests
          /\ pos' # pos + 1 =>
              /\ requests' = requests
              /\ outcome' = outcome \/ outcome' = <<>>]_vars

\* A batch of three messages, one of them dropped by load_data, has been
\* processed: the two others are Matched and their records are in the order
\* of the messages.
C13_Witness ==
    /\ pc = "processed"
    /\ runs = 1
    /\ Len(infile) = 3
    /\ Len(df) = 2
    /\ outcome = <<"pattern", "fallback">>
    /\ Len(requests) = 2
    /\ requests[1].full_text = df[1].message_text
    /\ requests[2].full_text = df[2].message_text
    /\ requests[1].full_text # requests[2].full_text

\* The records made from the loaded message i
RecordsOf(i) ==
    {k \in 1..Len(requests) : /\ requests[k].full_text = df[i].message_text
                              /\ requests[k].datetime = df[i].datetime}

\* The loaded messages that are the same message as i and were Matched in
\* the run that just ended
MatchedLike(i) ==
    {j \in 1..Len(df) : /\ df[j].message_text = df[i].message_text
                        /\ df[j].datetime = df[i].datetime
                        /\ outcome[j] \in {"pattern", "fallback"}}

\* C14: after any sequence of load_data and process_messages calls,
\* requests holds exactly one record for each loaded message that
\* classifies as a request and none for the others.
C14_ExactlyOnce ==
    pc = "processed" =>
        \A i \in 1..Len(df) : Cardinality(RecordsOf(i)) = Cardinality(MatchedLike(i))

\* C14, amended: process_messages adds exactly one record for each loaded
\* message that classifies as a request each time it runs, so requests
\* holds one record per such message after one run and one more after
\* every further run.
C14_OncePerRun ==
    pc = "processed" =>
        \A i \in 1..Len(df) :
            Cardinality(RecordsOf(i)) = runs * Cardinality(MatchedLike(i))

\* process_messages has run twice over one Matched and one other message.
C14_Witness ==
    /\ pc = "processed"
    /\ runs = 2
    /\ Len(df) = 2
    /\ Len(requests) = 2
    /\ requests[1] = requests[2]

\* C15: a record with an unparsable timestamp fails alone: once the run is
\* over, every well-formed row of the file that the tracked correspondent
\* sent and that classifies as a request has its record.
C15_MalformedFailsAlone ==
    pc \in {"raised", "processed"} =>
        \A i \in 1..Len(csv) :
            (/\ csv[i].sender \in {"Thad Norman", "Them"}
             /\ csv[i].message_text # ""
             /\ csv[i].message_date \in KnownDates
             /\ Truthy(extract_request_type(csv[i].message_text).value[1]))
                => \E k \in 1..Len(requests) :
                       requests[k].full_text = csv[i].message_text

PipeRows == {
    [sender |-> "Them", message_text |-> "OCan you add webhook fluent",
     message_date |-> "2025-01-15 10:30:00"],
    [sender |-> "Thad Norman", message_text |-> "Please fix the dns asap",
     message_date |-> "2025-02-03 09:00:00"],
    [sender |-> "Them", message_text |-> "got it",
     message_date |-> "2025-01-15 10:30:00"],
    [sender |-> "Me", message_text |-> "Could you review the staging site",
     message_date |-> "2025-01-15 10:30:00"],
    [sender |-> "Them", message_text |-> "Please update the plugin",
     message_date |-> "next tuesday-ish"],
    [sender |-> "Them", message_text |-> "Can you send the invoice",
     message_date |-> "2025-01-15 10:30:00", rest |-> <<"see attachment">>]
}

\* The input file of --input is there, or is not.
InitPipe ==
    /\ text = ""
    /\ np = 0
    /\ pc \in {"export", "missing"}
    /\ cleaned = ""
    /\ recleaned = ""
    /\ exc = "none"
    /\ ExtractorIdle

\* clean_data: `if not os.path.exists(input_file): return False`
clean_data_missing ==
    /\ pc = "missing"
    /\ pc' = "failed"
    /\ UNCHANGED <<text, np, normVars, exc, extrVars>>

\* extract_requests: load_data raised, `except Exception: return False`
extract_requests_raised ==
    /\ pc = "raised"
    /\ pc' = "failed"
    /\ UNCHANGED <<text, np, normVars, exc, extrVars>>

\* extract_requests: `if not extractor.requests: return False`
extract_requests_empty ==
    /\ pc = "processed"
    /\ requests = <<>>
    /\ pc' = "failed"
    /\ UNCHANGED <<text, np, normVars, exc, extrVars>>

\* generate_summary(output_dir), called when extract_requests returned True
\* (requests were found and exported): reads requests_summary.json
generate_summary ==
    /\ pc = "exported"
    /\ requests # <<>>
    /\ exported.total_requests > 0
    /\ pc' = "summarized"
    /\ UNCHANGED <<text, np, normVars, exc, extrVars>>

\* The end of main(): `if success: ... else: sys.exit(1)`
main_exit ==
    /\ pc \in {"summarized", "failed"}
    /\ exit_code' = IF pc = "summarized" THEN "0" ELSE "1"
    /\ pc' = "exit"
    /\ UNCHANGED <<text, np, normVars, exc, infile, csv, df, requests, outcome, pos, runs,
                   exported, cleanlog>>

NextPipe ==
    \/ \E row \in PipeRows : AddRow(row)
    \/ clean_data_missing
    \/ process_csv
    \/ load_data
    \/ process_row
    \/ process_done
    \/ extract_requests_raised
    \/ extract_requests_empty
    \/ export_results
    \/ generate_summary
    \/ main_exit

SpecPipe == InitPipe /\ [][NextPipe]_vars

(***************************************************************************)
(* Claims about export and the pipeline, checked under SpecPipe.           *)
(***************************************************************************)
\* C21: export and aggregation leave the requests as they are (export_results
\* changes no record, no field and no position of self.requests), and the
\* exported table holds, for every request, one row whose columns
\* (description included) are that request's, character for character; the
\* monthly summary counts every request once.
C21_ExportLeavesRequests ==
    /\ [](pc = "exported" /\ requests # <<>> =>
            /\ Len(exported.table) = Len(requests)
            /\ \E p \in [1..Len(requests) -> 1..Len(requests)] :
                  /\ \A i, j \in 1..Len(requests) : i # j => p[i] # p[j]
                  /\ \A i \in 1..Len(requests) :
                        /\ exported.table[i].description = requests[p[i]].description
                        /\ exported.table[i].date = requests[p[i]].date
                        /\ exported.table[i].request_type = requests[p[i]].request_type
                        /\ exported.table[i].urgency = requests[p[i]].urgency
            /\ \A i \in 1..Len(requests) :
                  \E g \in exported.monthly :
                      g.month = requests[i].month /\ g.category = requests[i].category
            /\ exported.total_requests = Len(requests))
    /\ [][pc' = "exported" => requests' = requests]_vars

\* Two requests that the sort exchanges in the exported table
C21_Witness ==
    /\ pc = "exported"
    /\ Len(requests) = 2
    /\ requests[1].date = "2025-02-03"
    /\ requests[2].date = "2025-01-15"
    /\ exported.table[1].description = requests[2].description
    /\ exported.table[2].description = "Please fix the dns asap"
\* C27: in the full pipeline, extraction is started only after the cleaning
\* step finished without error and the summary is generated only after
\* extraction succeeded; when process_csv hits an error, extraction is not
\* started and the process does not end with exit status 0.
C27_PipelineOrdering ==
    /\ pc \in {"loaded", "raised", "processed", "exported", "summarized"}
          => cleanlog = "processed"
    /\ pc = "summarized" => (requests # <<>> /\ exported.total_requests = Len(requests))
    /\ cleanlog = "error"
          => /\ pc \notin {"loaded", "raised", "processed", "exported", "summarized"}
             /\ exit_code # "0"

=============================================================================
